---- MODULE Spec2Model ----
(***************************************************************************)
(* Model of the user / role administration service:                        *)
(*   - roleService.getAllRoles and the userService operations              *)
(*     (src/unnamed/part_000),                                             *)
(*   - the JSON create-user and update-user routes (src/routes/users.js).  *)
(* The document store behind the User and Role models is not part of the   *)
(* sources; it is modelled from the data model of the specification        *)
(* (unique username and email, isDelete default false, createdAt set at    *)
(* creation, ids generated by the store).                                  *)
(*                                                                         *)
(* JavaScript values are records [t, s, b]: t is the type tag, s the text  *)
(* of a string or number (a sequence of one-character strings), b the      *)
(* value of a boolean.                                                     *)
(***************************************************************************)
EXTENDS Integers, Sequences, FiniteSets, TLC

VARIABLES
  users,   \* the users collection: users[i] is the document with _id i
  roles,   \* the roles collection: roles[i] is the document with _id i
  now,     \* the store clock (milliseconds) at the latest insert
  ret,     \* what the last service call returned or threw
  resp,    \* HTTP status the last JSON route answered with (0: no route ran)
  last,    \* which call ran last: its name, arguments and supplied keys
  nUpdates \* updateUser calls that changed a document so far

vars == <<users, roles, now, ret, resp, last, nUpdates>>

(* ------------------------------ bounds -------------------------------- *)

MaxClock == 2    \* last millisecond of the store clock
MaxUpdates == 1  \* updateUser calls that change a document, per behaviour

(* ------------------------- JavaScript values --------------------------- *)

Undefined == [t |-> "undefined", s |-> <<>>, b |-> FALSE]
Null == [t |-> "null", s |-> <<>>, b |-> FALSE]
Str(s) == [t |-> "string", s |-> s, b |-> FALSE]
Bool(b) == [t |-> "boolean", s |-> <<>>, b |-> b]
Num(s) == [t |-> "number", s |-> s, b |-> FALSE]

\* JavaScript truthiness: undefined, null, "", 0 and false are falsy
Truthy(v) ==
  CASE v.t = "undefined" -> FALSE
    [] v.t = "null" -> FALSE
    [] v.t = "string" -> v.s # <<>>
    [] v.t = "number" -> v.s # <<"0">>
    [] v.t = "boolean" -> v.b

\* String(v)
String(v) ==
  CASE v.t = "string" -> v.s
    [] v.t = "number" -> v.s
    [] v.t = "boolean" -> IF v.b THEN <<"t", "r", "u", "e">>
                                 ELSE <<"f", "a", "l", "s", "e">>
    [] v.t = "null" -> <<"n", "u", "l", "l">>
    [] v.t = "undefined" -> <<"u", "n", "d", "e", "f", "i", "n", "e", "d">>

\* the property k of object o (undefined when o has no such key)
Get(o, k) == IF k \in DOMAIN o THEN o[k] ELSE Undefined

RECURSIVE TrimStart(_)
TrimStart(s) ==
  IF s # <<>> /\ Head(s) = " " THEN TrimStart(Tail(s)) ELSE s

RECURSIVE TrimEnd(_)
TrimEnd(s) ==
  IF s # <<>> /\ s[Len(s)] = " " THEN TrimEnd(SubSeq(s, 1, Len(s) - 1)) ELSE s

\* String.prototype.trim
Trim(s) == TrimEnd(TrimStart(s))

Digits == <<"0", "1", "2", "3", "4", "5", "6", "7", "8", "9">>
IsDigit(c) == \E d \in 1..Len(Digits) : Digits[d] = c
DigitVal(c) == (CHOOSE d \in 1..Len(Digits) : Digits[d] = c) - 1

RECURSIVE DigitsValue(_, _)
DigitsValue(s, acc) ==
  IF s = <<>> \/ ~IsDigit(Head(s)) THEN acc
  ELSE DigitsValue(Tail(s), acc * 10 + DigitVal(Head(s)))

\* parseInt(v, 10): leading blanks skipped, optional sign, the longest prefix
\* of decimal digits; NaN when there is no digit
parseInt(v) ==
  LET s == TrimStart(String(v))
      neg == s # <<>> /\ Head(s) = "-"
      body == IF s # <<>> /\ Head(s) \in {"-", "+"} THEN Tail(s) ELSE s
  IN IF body = <<>> \/ ~IsDigit(Head(body))
     THEN [nan |-> TRUE, n |-> 0]
     ELSE [nan |-> FALSE,
           n |-> IF neg THEN 0 - DigitsValue(body, 0) ELSE DigitsValue(body, 0)]

toInt(v, def) ==
  LET n == parseInt(v)
  IN IF n.nan \/ n.n <= 0 THEN def ELSE n.n

DefaultPage == 1
DefaultLimit == 10

\* Math.ceil(total / l), l >= 1
Ceil(total, l) == (total + l - 1) \div l

LowerCase(c) ==
  CASE c = "A" -> "a" [] c = "B" -> "b" [] c = "X" -> "x" [] OTHER -> c

Lower(s) == [i \in 1..Len(s) |-> LowerCase(s[i])]

\* { $regex: pat, $options: 'i' } for a pattern of literal characters:
\* pat occurs in s, case ignored
RegexI(pat, s) ==
  \E i \in 1..(Len(s) - Len(pat) + 1) :
    Lower(SubSeq(s, i, i + Len(pat) - 1)) = Lower(pat)

\* bcrypt.hash(text, 10): a one-way image, never equal to its input
Hash(text) == <<"$", "2", "b", "$">> \o text

(* ------------------------------ ids ------------------------------------ *)

\* the text of the id the store generates for the n-th document
IdText(n) == <<Digits[n + 1]>>
IdStr(n) == Str(IdText(n))

\* mongoose.isValidObjectId on request input: a string of id syntax
isValidObjectId(v) ==
  v.t = "string" /\ Len(v.s) = 1 /\ IsDigit(v.s[1]) /\ v.s[1] # "0"

\* the number of the document an id names
IdNum(v) == DigitVal(v.s[1])

(* --------------- the document store (User and Role models) ------------- *)

UserFields ==
  {"username", "password", "email", "fullName", "avatarUrl", "role",
   "status", "isDelete", "createdAt"}

UniqueFields == {"username", "email"}

NoRole == 0

\* Role.findById: the _id of the role document, NoRole when there is none
RoleFindById(rs, v) ==
  IF IdNum(v) \in 1..Len(rs) THEN IdNum(v) ELSE NoRole

\* the unique indexes among us that document d, stored under id self, violates
DupKeys(us, d, self) ==
  {k \in UniqueFields : \E j \in 1..Len(us) : j # self /\ us[j][k] = d[k]}

\* result of a store write: ok, or the error the driver throws
\* (code 11000 with the violated index in key; code 0: any other failure)
StoreOk(us, id) == [ok |-> TRUE, users |-> us, id |-> id, code |-> 0, key |-> ""]
StoreErr(us, code, key) ==
  [ok |-> FALSE, users |-> us, id |-> 0, code |-> code, key |-> key]

\* User.create(d): schema defaults, the next id, the unique indexes
UserCreate(us, d, at, fault) ==
  LET doc == [f \in UserFields |->
                CASE f = "isDelete" -> FALSE
                  [] f = "createdAt" -> at
                  [] OTHER -> d[f]]
  IN IF fault THEN {StoreErr(us, 0, "")}
     ELSE IF DupKeys(us, doc, 0) # {}
     THEN {StoreErr(us, 11000, k) : k \in DupKeys(us, doc, 0)}
     ELSE {StoreOk(Append(us, doc), Len(us) + 1)}

\* the schema cast of a value written to path k
CastOk(val) == [ok |-> TRUE, val |-> val]
CastError == [ok |-> FALSE, val |-> 0]
Cast(k, v) ==
  CASE k \in {"username", "password", "email", "fullName", "avatarUrl"} ->
         IF v.t \in {"string", "number", "boolean"} THEN CastOk(String(v))
         ELSE CastError
    [] k = "role" ->
         IF v.t = "null" THEN CastOk(NoRole)
         ELSE IF isValidObjectId(v) THEN CastOk(IdNum(v))
         ELSE CastError
    [] k \in {"status", "isDelete"} ->
         IF v.t = "boolean" THEN CastOk(v.b) ELSE CastError
    [] OTHER -> CastError

\* the document d after { $set: set }
ApplySet(d, set) ==
  [f \in UserFields |-> IF f \in DOMAIN set THEN Cast(f, set[f]).val ELSE d[f]]

\* the paths createUser requires; whether the schema also rejects an empty
\* string written to them by an update (runValidators) is not fixed by
\* the sources, so both outcomes are possible
RequiredPaths == {"username", "password", "email"}
MayFailValidation(set) ==
  \E k \in DOMAIN set \cap RequiredPaths : Cast(k, set[k]).val = <<>>

\* User.findByIdAndUpdate(id, { $set: set }, { new: true, runValidators: true })
UserFindByIdAndUpdate(us, id, set, fault) ==
  LET n == IdNum(id)
      doc == ApplySet(us[n], set)
  IN IF fault \/ \E k \in DOMAIN set : ~Cast(k, set[k]).ok
     THEN {StoreErr(us, 0, "")}
     ELSE IF n \notin 1..Len(us) THEN {StoreOk(us, 0)}
     ELSE IF DupKeys(us, doc, n) # {}
     THEN {StoreErr(us, 11000, k) : k \in DupKeys(us, doc, n)}
     ELSE {StoreOk([us EXCEPT ![n] = doc], n)}
          \cup (IF MayFailValidation(set) THEN {StoreErr(us, 0, "")} ELSE {})

\* the ids of the documents of coll a query matches, in an order
\* .sort({ createdAt: -1 }) may return them: newest first, documents
\* with equal createdAt in an order the store does not fix
RECURSIVE Perms(_)
Perms(S) ==
  IF S = {} THEN {<<>>}
  ELSE UNION {{<<x>> \o p : p \in Perms(S \ {x})} : x \in S}

SortCreatedAtDesc(coll, ids) ==
  {o \in Perms(ids) :
     \A i \in 1..(Len(o) - 1) : coll[o[i]].createdAt >= coll[o[i + 1]].createdAt}

\* .skip(n).limit(l) of an ordered result
SkipLimit(o, n, l) ==
  SubSeq(o, n + 1, IF n + l < Len(o) THEN n + l ELSE Len(o))

\* .populate('role', 'name'): the role's _id and name, null when it is gone
Populate(rs, r) ==
  IF r \in 1..Len(rs) THEN [_id |-> r, name |-> rs[r].name]
  ELSE [_id |-> NoRole, name |-> <<>>]

\* doc.toObject(): every stored path and the _id
ToObject(us, id) ==
  [f \in UserFields \cup {"_id"} |-> IF f = "_id" THEN id ELSE us[id][f]]

\* .populate('role', 'name').lean({ getters: true })
Lean(us, rs, id) ==
  [f \in UserFields \cup {"_id"} |->
     CASE f = "_id" -> id
       [] f = "role" -> Populate(rs, us[id].role)
       [] OTHER -> us[id][f]]

(* ------------------------- service results ----------------------------- *)

RetNone ==
  [kind |-> "none", items |-> <<>>, total |-> 0, page |-> 0, limit |-> 0,
   pages |-> 0, status |-> 0, message |-> ""]
RetNull == [RetNone EXCEPT !.kind = "null"]
RetUser(obj) == [RetNone EXCEPT !.kind = "user", !.items = <<obj>>]
RetList(items) == [RetNone EXCEPT !.kind = "list", !.items = items]
RetPage(items, total, p, l) ==
  [RetNone EXCEPT !.kind = "page", !.items = items, !.total = total,
                  !.page = p, !.limit = l, !.pages = Ceil(total, l)]
\* a thrown Error: message and status (0: the error carries no status)
RetErr(status, message) ==
  [RetNone EXCEPT !.kind = "error", !.status = status, !.message = message]

Outcome(us, r) == [users |-> us, ret |-> r]

(* ------------------------------ roleService ---------------------------- *)

\* getAllRoles' query: isDelete false unless includeDeleted is truthy and not
\* the string 'false'; name as a case-insensitive pattern
RoleQueryMatches(r, name, includeDeleted) ==
  /\ (~Truthy(includeDeleted) \/ includeDeleted = Str(<<"f", "a", "l", "s", "e">>))
        => ~r.isDelete
  /\ Truthy(name) => RegexI(String(name), r.name)

\* every value getAllRoles({ name, includeDeleted, page, limit }) may return
getAllRoles(rs, name, includeDeleted, page, limit) ==
  LET ids == {i \in 1..Len(rs) : RoleQueryMatches(rs[i], name, includeDeleted)}
      doc(i) == [_id |-> i, name |-> rs[i].name, isDelete |-> rs[i].isDelete,
                 createdAt |-> rs[i].createdAt]
      docs(o) == [k \in 1..Len(o) |-> doc(o[k])]
      hasPaging == Truthy(page) \/ Truthy(limit)
      p == toInt(page, DefaultPage)
      l == toInt(limit, DefaultLimit)
  IN IF hasPaging
     THEN {RetPage(docs(SkipLimit(o, (p - 1) * l, l)), Cardinality(ids), p, l) :
             o \in SortCreatedAtDesc(rs, ids)}
     ELSE {RetList(docs(o)) : o \in SortCreatedAtDesc(rs, ids)}

(* ------------------------------ userService ---------------------------- *)

\* mutation of DeletePassword: the password is left on the object
KeepPassword(obj) == obj

\* delete obj.password
DeletePassword(obj) == [f \in DOMAIN obj \ {"password"} |-> obj[f]]

\* mutation of ValidateRole: the syntax is checked, the Role is not looked up
ValidateRoleSyntaxOnly(rs, role) ==
  IF ~isValidObjectId(role) THEN RetErr(400, "Invalid role id") ELSE RetNone

\* the role check of createUser and updateUser: the error thrown, RetNone
\* when the role passes
ValidateRole(rs, role) ==
  IF ~isValidObjectId(role) THEN RetErr(400, "Invalid role id")
  ELSE IF RoleFindById(rs, role) = NoRole THEN RetErr(404, "Role not found")
  ELSE RetNone

\* mutation of TranslateStoreError: the duplicate-key error is rethrown
\* untranslated, like any other error
RethrowStoreError(e) == RetErr(0, "store error")

\* the catch clause of createUser and updateUser: a duplicate-key error
\* becomes the 409 naming the index, any other error is rethrown as it is
TranslateStoreError(e) ==
  IF e.code = 11000
  THEN RetErr(409, (IF e.key # "" THEN e.key ELSE "field") \o " must be unique")
  ELSE RetErr(0, "store error")

createUser(us, rs, payload, at, fault) ==
  LET username == Get(payload, "username")
      password == Get(payload, "password")
      email == Get(payload, "email")
      fullName == IF Get(payload, "fullName") = Undefined THEN Str(<<>>)
                  ELSE Get(payload, "fullName")
      avatarUrl == IF Get(payload, "avatarUrl") = Undefined THEN Str(<<>>)
                   ELSE Get(payload, "avatarUrl")
      role == Get(payload, "role")
      status == Get(payload, "status")
      roleId == IF Truthy(role) THEN RoleFindById(rs, role) ELSE NoRole
      hashed == Hash(String(password))
      d == [username |-> Trim(String(username)),
            password |-> hashed,
            email |-> Trim(String(email)),
            fullName |-> String(fullName),
            avatarUrl |-> String(avatarUrl),
            role |-> roleId,
            status |-> IF status.t = "boolean" THEN status.b ELSE FALSE]
  IN IF ~Truthy(username) \/ ~Truthy(password) \/ ~Truthy(email)
     THEN {Outcome(us, RetErr(400, "username, password, and email are required"))}
     ELSE IF Truthy(role) /\ ValidateRole(rs, role) # RetNone
     THEN {Outcome(us, ValidateRole(rs, role))}
     ELSE {IF w.ok THEN Outcome(w.users, RetUser(DeletePassword(ToObject(w.users, w.id))))
           ELSE Outcome(us, TranslateStoreError(w)) :
             w \in UserCreate(us, d, at, fault)}

\* mutation of ListQueryMatches: the isDelete filter is left out
ListQueryMatchesDeleted(u, username, fullName) ==
  /\ Truthy(username) => RegexI(String(username), u.username)
  /\ Truthy(fullName) => RegexI(String(fullName), u.fullName)

\* the list query: isDelete false, username and fullName as
\* case-insensitive patterns
ListQueryMatches(u, username, fullName) ==
  /\ ~u.isDelete
  /\ Truthy(username) => RegexI(String(username), u.username)
  /\ Truthy(fullName) => RegexI(String(fullName), u.fullName)

getAllUsers(us, rs, page, limit, username, fullName) ==
  LET ids == {i \in 1..Len(us) : ListQueryMatches(us[i], username, fullName)}
      docs(o) == [k \in 1..Len(o) |-> DeletePassword(Lean(us, rs, o[k]))]
      hasPaging == Truthy(page) \/ Truthy(limit)
      p == toInt(page, DefaultPage)
      l == toInt(limit, DefaultLimit)
  IN IF hasPaging
     THEN {Outcome(us, RetPage(docs(SkipLimit(o, (p - 1) * l, l)),
                               Cardinality(ids), p, l)) :
             o \in SortCreatedAtDesc(us, ids)}
     ELSE {Outcome(us, RetList(docs(o))) : o \in SortCreatedAtDesc(us, ids)}

\* User.findOne({ username, isDelete: false })
ByUsernameMatches(u, username) ==
  u.username = String(username) /\ ~u.isDelete

getUserByUsername(us, rs, username) ==
  LET ids == {i \in 1..Len(us) : ByUsernameMatches(us[i], username)}
  IN IF ~Truthy(username) \/ ids = {} THEN {Outcome(us, RetNull)}
     ELSE {Outcome(us, RetUser(DeletePassword(Lean(us, rs, i)))) : i \in ids}

getUserById(us, rs, id) ==
  IF ~isValidObjectId(id) \/ IdNum(id) \notin 1..Len(us)
  THEN {Outcome(us, RetNull)}
  ELSE {Outcome(us, RetUser(DeletePassword(Lean(us, rs, IdNum(id)))))}

\* mutation of allowed: isDelete is updatable
allowedWithIsDelete ==
  {"fullName", "avatarUrl", "status", "role", "email", "username", "password",
   "isDelete"}

\* the fields updateUser copies from updates into $set
allowed ==
  {"fullName", "avatarUrl", "status", "role", "email", "username", "password"}

\* mutation of AllowedUpdates: every supplied key is copied
CopyAllUpdates(updates) ==
  [k \in {k \in DOMAIN updates : updates[k] # Undefined} |-> updates[k]]

\* for (const k of allowed) if (updates[k] !== undefined) toSet[k] = updates[k]
AllowedUpdates(updates) ==
  [k \in {k \in allowed : Get(updates, k) # Undefined} |-> updates[k]]

updateUser(us, rs, id, updates, fault) ==
  LET toSet0 == AllowedUpdates(updates)
      hasRole == "role" \in DOMAIN toSet0 /\ Truthy(toSet0["role"])
      toSet1 == IF hasRole
                THEN [toSet0 EXCEPT !["role"] = IdStr(RoleFindById(rs, toSet0["role"]))]
                ELSE toSet0
      hasPassword == "password" \in DOMAIN toSet1 /\ Truthy(toSet1["password"])
      toSet == IF hasPassword
               THEN [toSet1 EXCEPT !["password"] = Str(Hash(String(toSet1["password"])))]
               ELSE toSet1
  IN IF ~isValidObjectId(id) THEN {Outcome(us, RetNull)}
     ELSE IF hasRole /\ ValidateRole(rs, toSet0["role"]) # RetNone
     THEN {Outcome(us, ValidateRole(rs, toSet0["role"]))}
     ELSE {IF ~w.ok THEN Outcome(us, TranslateStoreError(w))
           ELSE IF w.id = 0 THEN Outcome(us, RetNull)
           ELSE Outcome(w.users, RetUser(DeletePassword(Lean(w.users, rs, w.id)))) :
             w \in UserFindByIdAndUpdate(us, id, toSet, fault)}

\* softDeleteUser's update
SoftDeleteSet == [isDelete |-> Bool(TRUE)]

softDeleteUser(us, rs, id) ==
  IF ~isValidObjectId(id) THEN {Outcome(us, RetNull)}
  ELSE {IF w.id = 0 THEN Outcome(us, RetNull)
        ELSE Outcome(w.users, RetUser(DeletePassword(Lean(w.users, rs, w.id)))) :
          w \in UserFindByIdAndUpdate(us, id, SoftDeleteSet, FALSE)}

\* mutation of VerifyMatches: the username is not part of the filter
VerifyMatchesEmailOnly(u, email, username) ==
  u.email = String(email) /\ ~u.isDelete

\* verifyUser's filter { email, username, isDelete: false }
VerifyMatches(u, email, username) ==
  u.email = String(email) /\ u.username = String(username) /\ ~u.isDelete

\* User.findOneAndUpdate(filter, { $set: { status: true } }, { new: true })
verifyUser(us, rs, email, username) ==
  LET ids == {i \in 1..Len(us) : VerifyMatches(us[i], email, username)}
  IN IF ~Truthy(email) \/ ~Truthy(username) \/ ids = {}
     THEN {Outcome(us, RetNull)}
     ELSE {LET after == [us EXCEPT ![i].status = TRUE]
           IN Outcome(after, RetUser(DeletePassword(Lean(after, rs, i)))) :
             i \in ids}

(* ------------------------------ actions -------------------------------- *)

\* the keys an object supplies
Supplied(o) == {k \in DOMAIN o : o[k] # Undefined}

Call(op, args, keys) == [op |-> op, args |-> args, keys |-> keys]

Role(name, isDelete, createdAt) ==
  [name |-> name, isDelete |-> isDelete, createdAt |-> createdAt]

\* the roles collection the service starts with
InitialRoles ==
  <<Role(<<"a", "d", "m", "i", "n">>, FALSE, 1),
    Role(<<"u", "s", "e", "r">>, FALSE, 2),
    Role(<<"o", "l", "d">>, TRUE, 3)>>

Init ==
  /\ users = <<>>
  /\ roles = InitialRoles
  /\ now = 1
  /\ ret = RetNone
  /\ resp = 0
  /\ last = Call("none", <<>>, {})
  /\ nUpdates = 0

\* userService.createUser(payload), dt milliseconds after the latest insert
CreateUser(payload, dt, fault) ==
  /\ now + dt <= MaxClock
  /\ \E o \in createUser(users, roles, payload, now + dt, fault) :
       /\ users' = o.users
       /\ ret' = o.ret
       /\ now' = IF o.users # users THEN now + dt ELSE now
  /\ resp' = 0
  /\ last' = Call("createUser", <<Get(payload, "role")>>, Supplied(payload))
  /\ UNCHANGED <<roles, nUpdates>>

GetAllUsers(page, limit, username, fullName) ==
  /\ \E o \in getAllUsers(users, roles, page, limit, username, fullName) :
       ret' = o.ret
  /\ resp' = 0
  /\ last' = Call("getAllUsers", <<limit, username, fullName>>, {})
  /\ UNCHANGED <<users, roles, now, nUpdates>>

GetUserByUsername(username) ==
  /\ \E o \in getUserByUsername(users, roles, username) : ret' = o.ret
  /\ resp' = 0
  /\ last' = Call("getUserByUsername", <<username>>, {})
  /\ UNCHANGED <<users, roles, now, nUpdates>>

GetUserById(id) ==
  /\ \E o \in getUserById(users, roles, id) : ret' = o.ret
  /\ resp' = 0
  /\ last' = Call("getUserById", <<id>>, {})
  /\ UNCHANGED <<users, roles, now, nUpdates>>

UpdateUser(id, updates, fault) ==
  /\ \E o \in updateUser(users, roles, id, updates, fault) :
       /\ o.users # users => nUpdates < MaxUpdates
       /\ users' = o.users
       /\ ret' = o.ret
       /\ nUpdates' = IF o.users # users THEN nUpdates + 1 ELSE nUpdates
  /\ resp' = 0
  /\ last' = Call("updateUser", <<id, Get(updates, "role")>>, Supplied(updates))
  /\ UNCHANGED <<roles, now>>

SoftDeleteUser(id) ==
  /\ \E o \in softDeleteUser(users, roles, id) :
       /\ users' = o.users
       /\ ret' = o.ret
  /\ resp' = 0
  /\ last' = Call("softDeleteUser", <<id>>, {})
  /\ UNCHANGED <<roles, now, nUpdates>>

VerifyUser(email, username) ==
  /\ \E o \in verifyUser(users, roles, email, username) :
       /\ users' = o.users
       /\ ret' = o.ret
  /\ resp' = 0
  /\ last' = Call("verifyUser", <<email, username>>, {})
  /\ UNCHANGED <<roles, now, nUpdates>>

GetAllRoles(name, includeDeleted, page, limit) ==
  /\ ret' \in getAllRoles(roles, name, includeDeleted, page, limit)
  /\ resp' = 0
  /\ last' = Call("getAllRoles", <<limit, name, includeDeleted>>, {})
  /\ UNCHANGED <<users, roles, now, nUpdates>>

\* res.status(err.status || 400)
RouteErrorStatus(r) == IF r.status # 0 THEN r.status ELSE 400

\* router.post('/'): createUser(req.body), 201 or the error's status
PostUsers(body, dt, fault) ==
  /\ now + dt <= MaxClock
  /\ \E o \in createUser(users, roles, body, now + dt, fault) :
       /\ users' = o.users
       /\ ret' = o.ret
       /\ resp' = IF o.ret.kind = "error" THEN RouteErrorStatus(o.ret) ELSE 201
       /\ now' = IF o.users # users THEN now + dt ELSE now
  /\ last' = Call("createUser", <<Get(body, "role")>>, Supplied(body))
  /\ UNCHANGED <<roles, nUpdates>>

\* router.put('/:id'): updateUser(req.params.id, req.body), 200, 404 when
\* there is no result, or the error's status
PutUser(id, body, fault) ==
  /\ \E o \in updateUser(users, roles, id, body, fault) :
       /\ o.users # users => nUpdates < MaxUpdates
       /\ users' = o.users
       /\ ret' = o.ret
       /\ nUpdates' = IF o.users # users THEN nUpdates + 1 ELSE nUpdates
       /\ resp' = IF o.ret.kind = "error" THEN RouteErrorStatus(o.ret)
                  ELSE IF o.ret.kind = "null" THEN 404
                  ELSE 200
  /\ last' = Call("updateUser", <<id, Get(body, "role")>>, Supplied(body))
  /\ UNCHANGED <<roles, now>>

(* ------------------------------ inputs --------------------------------- *)

\* an object with the given keys; every other key is absent
PayloadKeys ==
  {"username", "password", "email", "fullName", "avatarUrl", "role", "status",
   "isDelete", "createdAt"}
Obj(o) == [k \in PayloadKeys |-> IF k \in DOMAIN o THEN o[k] ELSE Undefined]

UserA == Str(<<"a">>)
UserPadA == Str(<<" ", "a">>)
UserB == Str(<<"b">>)
MailX == Str(<<"x">>)
MailY == Str(<<"y">>)
Pw == Str(<<"p">>)
BadId == Str(<<"z">>)
\* a malformed id, the ids of the users that may exist, an id of no user
UserIds == {BadId, IdStr(1), IdStr(2), IdStr(3)}

(* ------------- Spec: user lifecycle and the read operations ------------- *)

CreatePayloads ==
  {Obj([username |-> u, email |-> e, password |-> Pw]) :
     u \in {UserA, UserPadA, UserB, Undefined}, e \in {MailX, MailY}}
  \cup {Obj([username |-> UserB, email |-> MailY, password |-> Pw,
             fullName |-> Str(<<"X">>)])}

UpdateInputs ==
  {Obj([username |-> UserB]), Obj([username |-> UserPadA]), Obj([email |-> MailY])}

\* getAllUsers inputs: <<page, limit, username, fullName>>
ListInputs ==
  {<<Undefined, Undefined, Undefined, Undefined>>,
   <<Undefined, Undefined, Str(<<"A">>), Undefined>>,
   <<Undefined, Undefined, Undefined, Str(<<"x">>)>>,
   <<Str(<<"x">>), Str(<<"0">>), Undefined, Undefined>>,
   <<Undefined, Str(<<"2">>), Undefined, Undefined>>,
   <<Str(<<"1">>), Str(<<"1">>), Undefined, Undefined>>,
   <<Str(<<"2">>), Str(<<"1">>), Undefined, Undefined>>,
   <<Str(<<"3">>), Str(<<"1">>), Undefined, Undefined>>,
   <<Str(<<"1">>), Str(<<"1">>), Str(<<"A">>), Undefined>>}

\* getAllRoles inputs: <<name, includeDeleted, page, limit>>
RoleListInputs ==
  {<<Undefined, Str(<<"f", "a", "l", "s", "e">>), Undefined, Undefined>>,
   <<Str(<<"E">>), Str(<<"1">>), Str(<<"2">>), Str(<<"1">>)>>,
   <<Undefined, Undefined, Undefined, Num(<<"1", "0", "0", "0">>)>>}

Next ==
  \/ \E payload \in CreatePayloads, dt \in {0, 1} : CreateUser(payload, dt, FALSE)
  \/ \E in \in ListInputs : GetAllUsers(in[1], in[2], in[3], in[4])
  \/ \E username \in {UserA, UserPadA, UserB, Undefined} : GetUserByUsername(username)
  \/ \E id \in {BadId, IdStr(1), IdStr(2)} : GetUserById(id)
  \/ \E id \in {BadId, IdStr(1), IdStr(2)}, updates \in UpdateInputs :
       UpdateUser(id, updates, FALSE)
  \/ \E id \in {BadId, IdStr(1), IdStr(2)} : SoftDeleteUser(id)
  \/ \E in \in RoleListInputs : GetAllRoles(in[1], in[2], in[3], in[4])

Spec == Init /\ [][Next]_vars

(* ------------------------- claims checked under Spec -------------------- *)

Deleted == {i \in 1..Len(users) : users[i].isDelete}

\* the _ids of the documents a result carries
ResultIds(r) == {r.items[k]._id : k \in 1..Len(r.items)}

\* C2: a soft-deleted user is in no getAllUsers result (bare list or page,
\* with or without filters), getUserByUsername of its username returns no
\* result, and getUserById of its id returns it with isDelete = true
SoftDeletedHiddenButRetrievable ==
  \A i \in Deleted :
    /\ last.op = "getAllUsers" => i \notin ResultIds(ret)
    /\ (last.op = "getUserByUsername" /\ last.args[1] = Str(users[i].username))
         => ret.kind = "null"
    /\ (last.op = "getUserById" /\ last.args[1] = IdStr(i))
         => /\ ret.kind = "user"
            /\ ret.items[1]._id = i
            /\ ret.items[1].isDelete = TRUE

\* C2 witness: after a soft delete and a later rename of the deleted user, a
\* list read returns the other user only
SoftDeletedHiddenWitness ==
  /\ \E i \in Deleted : \E j \in 1..Len(users) : j \notin Deleted
  /\ nUpdates > 0
  /\ last.op = "getAllUsers"
  /\ Len(ret.items) = 1

PageStr(p) == Str(<<Digits[p + 1]>>)

RECURSIVE ConcatItems(_)
ConcatItems(run) ==
  IF run = <<>> THEN <<>>
  ELSE ConcatItems(SubSeq(run, 1, Len(run) - 1)) \o run[Len(run)].items

\* the pagination contract for one listing: unpaged(): the possible bare
\* results, paged(p): the possible envelopes of page p with limit l, t the
\* number of matching records
PaginationContract(unpaged, paged(_), l, t) ==
  LET \* every run of paged reads page = 1..n, one possible result per page
      PageRuns[n \in 0..Ceil(t, l)] ==
        IF n = 0 THEN {<<>>}
        ELSE {Append(run, r) : run \in PageRuns[n - 1], r \in paged(n)}
  IN
  /\ \A e \in paged(1) : e.total = t /\ e.pages = Ceil(t, l)
  /\ \A run \in PageRuns[Ceil(t, l)] :
       /\ \A p \in 1..Len(run) :
            /\ Len(run[p].items) <= l
            /\ run[p].total = t
            /\ run[p].pages = Ceil(t, l)
       /\ \A full \in unpaged : ConcatItems(run) = full.items

PositiveLimits == {1, 2}

\* C5: with no write between the reads, for getAllRoles and getAllUsers
\* with a fixed filter and any positive limit L, total = T,
\* pages = ceil(T/L), no page has more than L items, and the items of pages
\* 1..pages concatenated are the unpaginated result
PaginationComplete ==
  \A l \in PositiveLimits :
    /\ \A f \in {Undefined, Str(<<"A">>)} :
         LET paged(p) ==
               {o.ret : o \in getAllUsers(users, roles, PageStr(p), PageStr(l),
                                          f, Undefined)}
             unpaged ==
               {o.ret : o \in getAllUsers(users, roles, Undefined, Undefined,
                                          f, Undefined)}
             t == Cardinality({i \in 1..Len(users) :
                                 ListQueryMatches(users[i], f, Undefined)})
         IN PaginationContract(unpaged, paged, l, t)
    /\ \A inc \in {Undefined, Str(<<"1">>)} :
         LET paged(p) == getAllRoles(roles, Undefined, inc, PageStr(p), PageStr(l))
             unpaged == getAllRoles(roles, Undefined, inc, Undefined, Undefined)
             t == Cardinality({i \in 1..Len(roles) :
                                 RoleQueryMatches(roles[i], Undefined, inc)})
         IN PaginationContract(unpaged, paged, l, t)

Unique ==
  \A i, j \in 1..Len(users) :
    i # j => users[i].username # users[j].username /\ users[i].email # users[j].email

\* the unique fields on which document d would collide with a stored user
\* other than self
Collisions(d, self) ==
  {k \in UniqueFields : \E j \in 1..Len(users) : j # self /\ users[j][k] = d[k]}

ConflictRejected(r, ks) ==
  /\ r.kind = "error"
  /\ r.status = 409
  /\ \E k \in ks : r.message = k \o " must be unique"

CreateConflicts ==
  \A payload \in CreatePayloads :
    LET d == [username |-> Trim(String(payload.username)),
              email |-> Trim(String(payload.email))]
    IN (Truthy(payload.username) /\ Collisions(d, 0) # {}) =>
         \A o \in createUser(users, roles, payload, now, FALSE) :
           ConflictRejected(o.ret, Collisions(d, 0)) /\ o.users = users

UpdateConflicts ==
  \A n \in 1..Len(users), updates \in UpdateInputs :
    LET d == [k \in UniqueFields |->
                IF updates[k] # Undefined THEN String(updates[k]) ELSE users[n][k]]
    IN Collisions(d, n) # {} =>
         \A o \in updateUser(users, roles, IdStr(n), updates, FALSE) :
           ConflictRejected(o.ret, Collisions(d, n)) /\ o.users = users

\* C6: in every reachable state usernames and emails are pairwise distinct
\* across all stored users (soft-deleted ones included), and every createUser
\* or updateUser call that would give a second user the username or email of
\* a stored one fails with status 409 and a message naming a duplicated
\* field, and changes no document
UniquenessEnforced == Unique /\ CreateConflicts /\ UpdateConflicts

\* C6 witness: an updateUser was rejected for the email of another user
\* which is soft-deleted
UniquenessWitness ==
  /\ last.op = "updateUser"
  /\ ret.kind = "error"
  /\ ret.status = 409
  /\ ret.message = "email must be unique"
  /\ \E i \in Deleted : users[i].email = String(MailY)

(* ------------- SpecVerify: every operation, the activation flow --------- *)

VerifyCreatePayloads ==
  {Obj([username |-> u, email |-> e, password |-> Pw]) :
     u \in {UserA, UserB}, e \in {MailX, MailY}}

VerifyEmails == {MailX, MailY, Str(<<>>)}
VerifyUsernames == {UserA, UserB, Undefined}

NextVerify ==
  \/ \E payload \in VerifyCreatePayloads, dt \in {0, 1} :
       CreateUser(payload, dt, FALSE)
  \/ \E in \in {<<Undefined, Undefined>>, <<Str(<<"1">>), Str(<<"1">>)>>,
               <<Str(<<"1">>), Undefined>>} :
       GetAllUsers(in[1], in[2], Undefined, Undefined)
  \/ \E username \in {UserA, Undefined} : GetUserByUsername(username)
  \/ \E id \in {BadId, IdStr(1)} : GetUserById(id)
  \/ \E id \in {BadId, IdStr(1), IdStr(3)},
        updates \in {Obj([password |-> Pw]), Obj([isDelete |-> Bool(FALSE)])} :
       UpdateUser(id, updates, FALSE)
  \/ \E id \in UserIds : SoftDeleteUser(id)
  \/ \E email \in VerifyEmails, username \in VerifyUsernames :
       VerifyUser(email, username)
  \/ GetAllRoles(Undefined, Undefined, Undefined, Num(<<"1", "0", "0", "0">>))

SpecVerify == Init /\ [][NextVerify]_vars

\* C1: no value a user-service operation returns carries a password field
NoPasswordReturned ==
  \A k \in 1..Len(ret.items) :
    last.op # "getAllRoles" => "password" \notin DOMAIN ret.items[k]

\* C1 witness: a page of two users was returned
NoPasswordWitness ==
  /\ last.op = "getAllUsers"
  /\ ret.kind = "page"
  /\ Len(ret.items) = 2

\* the users verifyUser's arguments name: exactly that email and exactly that
\* username on one record that is not soft-deleted
VerifyTargets(email, username) ==
  {i \in 1..Len(users) :
     /\ Truthy(email) /\ Truthy(username)
     /\ users[i].email = email.s
     /\ users[i].username = username.s
     /\ ~users[i].isDelete}

\* C4: verifyUser({email, username}) changes a user only if that one record
\* has exactly that email and that username and is not soft-deleted, and then
\* only sets its status to true; in every other case it returns no result
\* and leaves every record unchanged
VerifyOnlyExactPair ==
  [][last'.op = "verifyUser" =>
       LET targets == VerifyTargets(last'.args[1], last'.args[2])
       IN /\ Len(users') = Len(users)
          /\ \A i \in 1..Len(users) :
               users'[i] # users[i] =>
                 i \in targets /\ users'[i] = [users[i] EXCEPT !.status = TRUE]
          /\ targets = {} => ret'.kind = "null" /\ users' = users
          /\ targets # {} =>
               /\ ret'.kind = "user"
               /\ ret'.items[1]._id \in targets
               /\ users'[ret'.items[1]._id].status = TRUE]_vars

\* C4 witness: verifyUser returned no result for the email of one user and
\* the username of another, and both are still unverified
VerifyWitness ==
  /\ last.op = "verifyUser"
  /\ ret.kind = "null"
  /\ \E i, j \in 1..Len(users) :
       /\ i # j
       /\ users[i].email = last.args[1].s
       /\ users[j].username = last.args[2].s
       /\ ~users[i].status /\ ~users[j].status
       /\ ~users[i].isDelete /\ ~users[j].isDelete

\* C10: soft deletion is permanent and never physical: no operation sets
\* isDelete back to false on a user and no operation removes a user record
SoftDeletePermanent ==
  [][/\ Len(users') >= Len(users)
     /\ \A i \in 1..Len(users) :
          /\ users'[i].createdAt = users[i].createdAt
          /\ users[i].isDelete => users'[i].isDelete]_vars

\* C10 witness: updateUser with isDelete among its updates succeeded on a
\* soft-deleted user, which is still soft-deleted
SoftDeletePermanentWitness ==
  \E i \in Deleted :
    /\ last.op = "updateUser"
    /\ last.args[1] = IdStr(i)
    /\ "isDelete" \in last.keys
    /\ ret.kind = "user"
    /\ ret.items[1]["_id"] = i

(* ------------- SpecUpdate: updateUser over every field ------------------ *)

UpdateCreatePayloads ==
  {Obj([username |-> UserA, email |-> MailX, password |-> Pw]),
   Obj([username |-> UserB, email |-> MailY, password |-> Pw])}

FieldUpdates ==
  {Obj([fullName |-> Str(<<"X">>)]),
   Obj([avatarUrl |-> Str(<<"u">>), status |-> Bool(TRUE)]),
   Obj([role |-> IdStr(1)]),
   Obj([role |-> Null]),
   Obj([email |-> MailY]),
   Obj([createdAt |-> Num(<<"9">>), username |-> UserB]),
   Obj([password |-> Str(<<>>)]),
   Obj([password |-> Num(<<"0">>)]),
   Obj([isDelete |-> Bool(TRUE)]),
   Obj([isDelete |-> Bool(FALSE)]),
   Obj([isDelete |-> Bool(TRUE), fullName |-> Str(<<"X">>)])}

NextUpdate ==
  \/ \E payload \in UpdateCreatePayloads : CreateUser(payload, 0, FALSE)
  \/ \E id \in {BadId, IdStr(1), IdStr(2)}, updates \in FieldUpdates :
       UpdateUser(id, updates, FALSE)
  \/ SoftDeleteUser(IdStr(1))
  \/ \E id \in {IdStr(1), IdStr(2)} : GetUserById(id)

SpecUpdate == Init /\ [][NextUpdate]_vars

AllowList ==
  {"fullName", "avatarUrl", "status", "role", "email", "username", "password"}

\* C3: updateUser(id, updates) changes only fields that are in the allow-list
\* and supplied in updates, and only on the user with that id: every other
\* field (isDelete, createdAt), every field not supplied and every other user
\* stay unchanged; updates {isDelete: true, fullName: "X"} sets fullName
UpdateChangesOnlyAllowedSupplied ==
  [][last'.op = "updateUser" =>
       /\ Len(users') = Len(users)
       /\ \A i \in 1..Len(users), f \in UserFields :
            users'[i][f] # users[i][f] =>
              /\ last'.args[1] = IdStr(i)
              /\ f \in AllowList
              /\ f \in last'.keys
       /\ (last'.keys = {"isDelete", "fullName"} /\ ret'.kind = "user") =>
            users'[ret'.items[1]._id].fullName = <<"X">>]_vars

\* C3 witness: updates {isDelete: true, fullName: "X"} returned the user with
\* the new fullName and isDelete still false
UpdateFrameWitness ==
  /\ last.op = "updateUser"
  /\ last.keys = {"isDelete", "fullName"}
  /\ ret.kind = "user"
  /\ ret.items[1].fullName = <<"X">>
  /\ ret.items[1].isDelete = FALSE
  /\ Len(users) = 2

PasswordInputs == {Pw, Str(<<>>), Num(<<"0">>)}

\* C7: the password stored for every user is an output of the hash function
\* and never a value a caller supplied
PasswordsHashed ==
  \A i \in 1..Len(users) :
    /\ \E v \in PasswordInputs : users[i].password = Hash(String(v))
    /\ \A v \in PasswordInputs : users[i].password # String(v)

(* ------------- SpecHttp: the JSON create and update routes -------------- *)

\* a role id of bad syntax, the id of a stored role, a well-formed id of no
\* role, and the falsy values a body may carry
RoleInputs == {BadId, IdStr(1), IdStr(9), Str(<<>>), Null}

PostBodies ==
  {Obj([username |-> UserA, email |-> MailX, password |-> Pw, role |-> r]) :
     r \in (RoleInputs \ {Null}) \cup {Undefined}}
  \cup {Obj([username |-> UserB, email |-> MailY, password |-> Pw]),
        Obj([username |-> UserB, email |-> MailX, password |-> Pw]),
        Obj([email |-> MailY, password |-> Pw, role |-> BadId])}

PutBodies ==
  {Obj([role |-> r]) : r \in RoleInputs}
  \cup {Obj([email |-> MailY]), Obj([fullName |-> Str(<<"X">>)])}

NextHttp ==
  \/ \E body \in PostBodies, fault \in BOOLEAN : PostUsers(body, 0, fault)
  \/ \E id \in UserIds, body \in PutBodies, fault \in BOOLEAN :
       PutUser(id, body, fault)
  \/ \E id \in {IdStr(1), IdStr(2)} : SoftDeleteUser(id)
  \/ \E id \in {IdStr(1), IdStr(2)} : GetUserById(id)

SpecHttp == Init /\ [][NextHttp]_vars

\* the role argument of the last createUser or updateUser call
RoleArg == IF last.op = "createUser" THEN last.args[1] ELSE last.args[2]

\* the last call was a createUser with its required fields or an updateUser
\* with a well-formed user id: it got as far as the role check
ReachedRoleCheck ==
  \/ last.op = "createUser" /\ {"username", "password", "email"} \subseteq last.keys
  \/ last.op = "updateUser" /\ isValidObjectId(last.args[1])

RoleErrors == {RetErr(400, "Invalid role id"), RetErr(404, "Role not found")}

\* C8 as stated: a role included in the call that is not a syntactically
\* valid id fails with "Invalid role id" (400), a valid id of no Role fails
\* with "Role not found" (404)
EveryIncludedRoleValidated ==
  (ReachedRoleCheck /\ RoleArg # Undefined) =>
    /\ ~isValidObjectId(RoleArg) => ret = RetErr(400, "Invalid role id")
    /\ (isValidObjectId(RoleArg) /\ RoleFindById(roles, RoleArg) = NoRole)
         => ret = RetErr(404, "Role not found")

TruthyRoleValidated ==
  (ReachedRoleCheck /\ Truthy(RoleArg)) =>
    /\ ~isValidObjectId(RoleArg) => ret = RetErr(400, "Invalid role id")
    /\ (isValidObjectId(RoleArg) /\ RoleFindById(roles, RoleArg) = NoRole)
         => ret = RetErr(404, "Role not found")

\* C8 amended: createUser and updateUser validate a truthy role the same way
\* ("Invalid role id" 400, "Role not found" 404, no user created or
\* modified); a falsy role (empty string, null) is not validated; a user's
\* role is only ever written with the id of a Role that existed at the
\* check, or with no role
RoleValidatedWhenTruthy ==
  [][/\ TruthyRoleValidated'
     /\ ret' \in RoleErrors => users' = users
     /\ \A i \in 1..Len(users') :
          (i > Len(users) \/ users'[i].role # users[i].role) =>
            \/ users'[i].role = NoRole
            \/ /\ Truthy(RoleArg')
               /\ isValidObjectId(RoleArg')
               /\ users'[i].role = IdNum(RoleArg')
               /\ users'[i].role \in 1..Len(roles)]_vars

\* C8 witness: updateUser on a stored user was refused for a malformed role
RoleValidatedWitness ==
  /\ last.op = "updateUser"
  /\ isValidObjectId(last.args[1])
  /\ IdNum(last.args[1]) \in 1..Len(users)
  /\ ret = RetErr(400, "Invalid role id")
  /\ users[IdNum(last.args[1])].role # NoRole

\* C9: on the JSON create and update routes the response status mirrors the
\* class of the service failure: 400 validation, 404 role not found, 409
\* conflict, 500 for an error that carries no status
JsonStatusMirrorsFailureClass ==
  (resp # 0 /\ ret.kind = "error") =>
    /\ ret.status = 0 => resp = 500
    /\ ret.status # 0 => resp = ret.status
    /\ ret.message = "Role not found" => resp = 404
    /\ ret.message \in {"username must be unique", "email must be unique"}
         => resp = 409
    /\ ret.message \in {"Invalid role id",
                        "username, password, and email are required"}
         => resp = 400

====
